---- MODULE Spec2Model ----
(***************************************************************************)
(* Crypto ESG dashboard: the merge / portfolio / insight pipeline of       *)
(* utils/esg_logic.py and the Streamlit script app.py that drives it.      *)
(*                                                                         *)
(* Numbers.  Prices are integer-valued; the price feed delivers them as    *)
(* text, which pd.to_numeric(errors='coerce') parses.  Holdings are kept   *)
(* in steps of 1/HoldingUnit of a coin (the sidebar's step of 0.1), so     *)
(* "Value (USD)" and total_value are in 1/HoldingUnit of a dollar.         *)
(* Quotients (the ESG score, the weighted metrics) are exact fractions     *)
(* num/den; binary floating-point rounding is not modelled.                *)
(***************************************************************************)
EXTENDS Integers, Sequences, FiniteSets, TLC

VARIABLES
    pc,              \* position of the caller (pipeline harness or script run)
    price_df,        \* the price table object handed to merge_price_and_esg
    esg_df,          \* the ESG reference table object
    df,              \* the merged table object (returned by merge, passed on)
    holdings_dict,   \* the holdings argument of calculate_portfolio_metrics
    metrics,         \* the metrics dict returned by calculate_portfolio_metrics
    insights,        \* outcome of get_esg_insights
    score,           \* arguments of direct categorize_esg_score calls
    rating,          \* their results, in call order
    auto_refresh,    \* app.py: the "Auto-refresh (30s)" checkbox
    custom_holdings, \* app.py: holdings built from the sidebar, or None
    cache,           \* app.py: the st.cache_data entry of load_data
    banners,         \* app.py: st.error / st.info messages shown in this run
    run              \* app.py: what this script run has done so far

vars == <<pc, price_df, esg_df, df, holdings_dict, metrics, insights, score,
          rating, auto_refresh, custom_holdings, cache, banners, run>>

coreVars == <<price_df, esg_df, df, holdings_dict, metrics, insights>>
rateVars == <<score, rating>>
appVars  == <<auto_refresh, custom_holdings, cache, banners, run>>

----------------------------------------------------------------------------
(* Bounds of the model *)

\* largest holding, in whole coins, that a holdings map of the model carries
MaxQty == 1
\* largest ESG component score fed to categorize_esg_score directly
MaxScore == 100

\* number_input(step=0.1): holdings are multiples of one tenth
HoldingUnit == 10

----------------------------------------------------------------------------
(* Values *)

\* a text cell, a numeric cell, and the missing value NaN
Str(chars) == [kind |-> "str", s |-> chars, v |-> 0]
Num(n)     == [kind |-> "num", s |-> <<>>, v |-> n]
NaN        == [kind |-> "nan", s |-> <<>>, v |-> 0]

\* an exact quotient n/d; a float division by zero gives nan
Div(n, d) ==
    IF d = 0 THEN [nan |-> TRUE, num |-> 0, den |-> 1]
             ELSE [nan |-> FALSE, num |-> n, den |-> d]

\* the Python int 0 assigned to the weighted scores in the else branch
Zero == [nan |-> FALSE, num |-> 0, den |-> 1]

\* Python None, for a holdings argument
None == [none |-> TRUE, map |-> <<>>]
Dict(m) == [none |-> FALSE, map |-> m]

\* a DataFrame: its columns and its rows (each row a function on the columns)
DataFrame(cols, rows) == [none |-> FALSE, columns |-> cols, rows |-> rows]
\* load_data's "return None"
NoFrame == [none |-> TRUE, columns |-> {}, rows |-> <<>>]

Digits == {"0", "1", "2", "3", "4", "5", "6", "7", "8", "9"}

DigitVal(c) ==
    CASE c = "0" -> 0 [] c = "1" -> 1 [] c = "2" -> 2 [] c = "3" -> 3
      [] c = "4" -> 4 [] c = "5" -> 5 [] c = "6" -> 6 [] c = "7" -> 7
      [] c = "8" -> 8 [] c = "9" -> 9

RECURSIVE ParseDigits(_)
ParseDigits(chars) ==
    IF chars = <<>> THEN 0
    ELSE 10 * ParseDigits(SubSeq(chars, 1, Len(chars) - 1))
         + DigitVal(chars[Len(chars)])

\* pd.to_numeric(x, errors='coerce') on one cell: text that is a number
\* becomes that number, any other text becomes NaN, numbers stay
ToNumeric(cell) ==
    IF cell.kind = "str"
    THEN IF cell.s # <<>> /\ \A i \in 1..Len(cell.s) : cell.s[i] \in Digits
         THEN Num(ParseDigits(cell.s))
         ELSE NaN
    ELSE cell

----------------------------------------------------------------------------
(* utils/esg_logic.py *)

\* df[col] = values: the frame with column col set to one value per row
SetColumn(frame, col, values) ==
    DataFrame(frame.columns \cup {col},
              [i \in 1..Len(frame.rows) |->
                  [c \in (DOMAIN frame.rows[i]) \cup {col} |->
                      IF c = col THEN values[i] ELSE frame.rows[i][c]]])

ScoreOf(row) == Div(row["esg_e"] + row["esg_s"] + row["esg_g"], 3)

compute_weighted_esg(frame) ==
    SetColumn(frame, "ESG Score",
              [i \in 1..Len(frame.rows) |-> ScoreOf(frame.rows[i])])

\* score >= k for a fraction score
AtLeast(f, k) == f.num >= k * f.den

\* variant: the thresholds compared with > instead of >=
categorize_strict(sc) ==
    LET Above(f, k) == f.num > k * f.den
    IN  IF Above(sc, 80) THEN "A+ (Excellent)"
        ELSE IF Above(sc, 70) THEN "A (Very Good)"
        ELSE IF Above(sc, 60) THEN "B+ (Good)"
        ELSE IF Above(sc, 50) THEN "B (Fair)"
        ELSE IF Above(sc, 40) THEN "C+ (Below Average)"
        ELSE "C (Poor)"

categorize_esg_score(sc) ==
    IF AtLeast(sc, 80) THEN "A+ (Excellent)"
    ELSE IF AtLeast(sc, 70) THEN "A (Very Good)"
    ELSE IF AtLeast(sc, 60) THEN "B+ (Good)"
    ELSE IF AtLeast(sc, 50) THEN "B (Fair)"
    ELSE IF AtLeast(sc, 40) THEN "C+ (Below Average)"
    ELSE "C (Poor)"

\* line 27: the last_price column of the caller's price table, coerced in place
CoercePrices(prices) ==
    SetColumn(prices, "last_price",
              [i \in 1..Len(prices.rows) |-> ToNumeric(prices.rows[i]["last_price"])])

\* the rows of right whose key equals that of the left row l, each joined to l
MatchesOf(l, right) ==
    LET hits == SelectSeq(right, LAMBDA r : r["market"] = l["market"])
    IN  [j \in 1..Len(hits) |-> l @@ hits[j]]

\* variant: the tables zipped row by row instead of joined on the key
RECURSIVE JoinRowsByPosition(_, _)
JoinRowsByPosition(left, right) ==
    IF left = <<>> \/ right = <<>> THEN <<>>
    ELSE MatchesOf(Head(left), <<Head(right)>>)
         \o JoinRowsByPosition(Tail(left), Tail(right))

RECURSIVE JoinRows(_, _)
JoinRows(left, right) ==
    IF left = <<>> THEN <<>>
    ELSE MatchesOf(Head(left), right) \o JoinRows(Tail(left), right)

\* left.merge(right, on="market", how="inner")
InnerJoin(left, right) ==
    DataFrame(left.columns \cup right.columns, JoinRows(left.rows, right.rows))

RatingOf(row) == categorize_esg_score(row["ESG Score"])

\* variant: rows without a price dropped from the result (a dropna)
MergedFrameDropMissing(prices, esg) ==
    LET scored == compute_weighted_esg(InnerJoin(prices, esg))
        full == SetColumn(scored, "ESG Rating",
                          [i \in 1..Len(scored.rows) |-> RatingOf(scored.rows[i])])
    IN  DataFrame(full.columns,
                  SelectSeq(full.rows, LAMBDA r : r["last_price"].kind = "num"))

\* the value merge_price_and_esg returns, given the coerced price table
MergedFrame(prices, esg) ==
    LET scored == compute_weighted_esg(InnerJoin(prices, esg))
    IN  SetColumn(scored, "ESG Rating",
                  [i \in 1..Len(scored.rows) |-> RatingOf(scored.rows[i])])

\* the built-in sample holdings of lines 44-50, in 1/HoldingUnit coins
DefaultHoldings ==
    [m \in {"BTCUSDT", "ETHUSDT", "ADAUSDT", "MATICUSDT", "SOLUSDT"} |->
        CASE m = "BTCUSDT"   -> 5
          [] m = "ETHUSDT"   -> 12
          [] m = "ADAUSDT"   -> 100 * HoldingUnit
          [] m = "MATICUSDT" -> 500 * HoldingUnit
          [] m = "SOLUSDT"   -> 10 * HoldingUnit]

\* lines 42-50: the map in force
HoldingsInForce(h) == IF h.none THEN DefaultHoldings ELSE h.map

\* line 53: df["market"].map(holdings_dict).fillna(0), for one row
HoldingOf(h, row) ==
    LET m == HoldingsInForce(h)
    IN  IF row["market"] \in DOMAIN m THEN m[row["market"]] ELSE 0

\* variant: the price taken for the value, the holding forgotten
ValueOfPriceOnly(row) ==
    IF row["last_price"].kind = "num" THEN Num(row["last_price"].v) ELSE NaN

\* line 56: Holding * last_price for one row; NaN wherever the price is NaN
ValueOf(row) ==
    IF row["last_price"].kind = "num"
    THEN Num(row["Holding"] * row["last_price"].v)
    ELSE NaN

\* variant: the frame cut down in place to the rows that are held
ValuedFrameHeldOnly(frame, h) ==
    LET held == SetColumn(frame, "Holding",
                          [i \in 1..Len(frame.rows) |-> HoldingOf(h, frame.rows[i])])
        full == SetColumn(held, "Value (USD)",
                          [i \in 1..Len(held.rows) |-> ValueOf(held.rows[i])])
    IN  DataFrame(full.columns, SelectSeq(full.rows, LAMBDA r : r["Holding"] > 0))

\* lines 53-56: the frame passed in, with its two new columns
ValuedFrame(frame, h) ==
    LET held == SetColumn(frame, "Holding",
                          [i \in 1..Len(frame.rows) |-> HoldingOf(h, frame.rows[i])])
    IN  SetColumn(held, "Value (USD)",
                  [i \in 1..Len(held.rows) |-> ValueOf(held.rows[i])])

\* Series.sum(): NaN entries are skipped
RECURSIVE SumSkipNa(_)
SumSkipNa(cells) ==
    IF cells = <<>> THEN 0
    ELSE (IF Head(cells).kind = "num" THEN Head(cells).v ELSE 0)
         + SumSkipNa(Tail(cells))

\* line 59
TotalValue(frame) ==
    SumSkipNa([i \in 1..Len(frame.rows) |-> frame.rows[i]["Value (USD)"]])

\* a column entry as a fraction: "ESG Score" is one, the components are integers
AsFraction(row, col) == IF col = "ESG Score" THEN row[col] ELSE Div(row[col], 1)

\* variant: the plain mean of the column, df[col].mean()
MeanOfColumn(frame, col, total) ==
    LET den == IF col = "ESG Score" THEN 3 ELSE 1
        entries == [i \in 1..Len(frame.rows) |->
                       Num(AsFraction(frame.rows[i], col).num)]
    IN  Div(SumSkipNa(entries), den * Len(frame.rows))

\* (df[col] * df["Value (USD)"]).sum() / total_value; the entries of one
\* column share their denominator
WeightedMean(frame, col, total) ==
    LET den == IF col = "ESG Score" THEN 3 ELSE 1
        products == [i \in 1..Len(frame.rows) |->
                        IF frame.rows[i]["Value (USD)"].kind = "num"
                        THEN Num(AsFraction(frame.rows[i], col).num
                                 * frame.rows[i]["Value (USD)"].v)
                        ELSE NaN]
    IN  Div(SumSkipNa(products), den * total)

\* variant: the division made whatever the total
WeightedScoreUnguarded(frame, col, total) == WeightedMean(frame, col, total)

\* lines 61-67: one weighted score
WeightedScore(frame, col, total) ==
    IF total > 0 THEN WeightedMean(frame, col, total) ELSE Zero

\* line 75
NumHoldings(frame) ==
    Cardinality({i \in 1..Len(frame.rows) : frame.rows[i]["Holding"] > 0})

\* lines 59-76: the metrics dict, computed from the valued frame
MetricsOf(valued) ==
    LET total == TotalValue(valued)
    IN  [total_value            |-> total,
         weighted_esg           |-> WeightedScore(valued, "ESG Score", total),
         weighted_environmental |-> WeightedScore(valued, "esg_e", total),
         weighted_social        |-> WeightedScore(valued, "esg_s", total),
         weighted_governance    |-> WeightedScore(valued, "esg_g", total),
         num_holdings           |-> NumHoldings(valued)]

\* a <= b for fractions (positive denominators)
FracLeq(a, b) == a.num * b.den <= b.num * a.den

\* Series.idxmax(): the first row holding the maximum of the column
IdxMax(frame, col) ==
    CHOOSE i \in 1..Len(frame.rows) :
        /\ \A j \in 1..Len(frame.rows) :
              FracLeq(AsFraction(frame.rows[j], col), AsFraction(frame.rows[i], col))
        /\ \A j \in 1..(i - 1) :
              ~FracLeq(AsFraction(frame.rows[i], col), AsFraction(frame.rows[j], col))

\* Series.idxmin(): the first row holding the minimum
IdxMin(frame, col) ==
    CHOOSE i \in 1..Len(frame.rows) :
        /\ \A j \in 1..Len(frame.rows) :
              FracLeq(AsFraction(frame.rows[i], col), AsFraction(frame.rows[j], col))
        /\ \A j \in 1..(i - 1) :
              ~FracLeq(AsFraction(frame.rows[j], col), AsFraction(frame.rows[i], col))

\* format(x, ".1f"): x in tenths, rounded to nearest (a third never ties)
Tenths(f) == (2 * 10 * f.num + f.den) \div (2 * f.den)

\* lines 80-101.  On an empty frame idxmax (line 85) raises ValueError and
\* nothing is returned; there is no guard before it.
get_esg_insights(frame) ==
    IF frame.rows = <<>>
    THEN [raised |-> "ValueError", at |-> 85, items |-> <<>>]
    ELSE LET best  == frame.rows[IdxMax(frame, "ESG Score")]
             worst == frame.rows[IdxMin(frame, "ESG Score")]
             high  == Cardinality({i \in 1..Len(frame.rows) :
                                     AtLeast(frame.rows[i]["ESG Score"], 70)})
             env   == frame.rows[IdxMax(frame, "esg_e")]
         IN  [raised |-> "none", at |-> 0,
              items |-> << <<"Highest ESG Score", best["name"], Tenths(best["ESG Score"])>>,
                           <<"Lowest ESG Score", worst["name"], Tenths(worst["ESG Score"])>>,
                           <<"assets have ESG scores >= 70", high, Len(frame.rows)>>,
                           <<"Environmental Leader", env["name"], env["esg_e"]>> >>]

----------------------------------------------------------------------------
(* Inputs of the model *)

\* the markets of the model, in the order the tables list them
SymOrder == <<"BTCUSDT", "ETHUSDT", "XRPUSDT">>
Symbols  == {SymOrder[i] : i \in 1..Len(SymOrder)}

NameOf(m) ==
    CASE m = "BTCUSDT" -> "BTC" [] m = "ETHUSDT" -> "ETH" [] m = "XRPUSDT" -> "XRP"

\* the text the exchange quotes for a market
QuoteOf(m) ==
    CASE m = "BTCUSDT" -> <<"5", "0", "0", "0", "0">>
      [] m = "ETHUSDT" -> <<"3", "0", "0", "0">>
      [] m = "XRPUSDT" -> <<"1">>

\* what a price table may carry for a market: nothing, its quote, a zero
\* price, or text that is no number
PriceOptions == {"absent", "quote", "zero", "bad"}

PriceText(m, opt) ==
    CASE opt = "quote" -> Str(QuoteOf(m))
      [] opt = "zero"  -> Str(<<"0">>)
      [] opt = "bad"   -> Str(<<"a", "b", "c">>)

PriceTable(pick) ==
    LET present == SelectSeq(SymOrder, LAMBDA m : pick[m] # "absent")
    IN  DataFrame({"market", "last_price"},
                  [i \in 1..Len(present) |->
                      [market |-> present[i],
                       last_price |-> PriceText(present[i], pick[present[i]])]])

PriceTables == {PriceTable(pick) : pick \in [Symbols -> PriceOptions]}

\* the ESG triples (esg_e, esg_s, esg_g) a reference table may carry
EsgTriples == {<<40, 40, 40>>, <<70, 70, 70>>, <<90, 30, 60>>}
EsgOptions == {<<>>} \cup EsgTriples

EsgTable(pick) ==
    LET present == SelectSeq(SymOrder, LAMBDA m : pick[m] # <<>>)
    IN  DataFrame({"market", "name", "esg_e", "esg_s", "esg_g"},
                  [i \in 1..Len(present) |->
                      [market |-> present[i], name |-> NameOf(present[i]),
                       esg_e |-> pick[present[i]][1],
                       esg_s |-> pick[present[i]][2],
                       esg_g |-> pick[present[i]][3]]])

EsgTables == {EsgTable(pick) : pick \in [Symbols -> EsgOptions]}

\* holdings, in 1/HoldingUnit coins: nothing, or whole coins up to MaxQty
Quantities == {q * HoldingUnit : q \in 0..MaxQty}

\* the holdings arguments: None, the empty map, a map of the two main
\* markets, a map of every market
HoldingsArgs ==
    {None} \cup
    {Dict(m) : m \in UNION {[K -> Quantities] :
                              K \in {{}, {"BTCUSDT", "ETHUSDT"}, Symbols}}}

NoMetrics == [total_value |-> 0, weighted_esg |-> Zero,
              weighted_environmental |-> Zero, weighted_social |-> Zero,
              weighted_governance |-> Zero, num_holdings |-> 0]
NoInsights == [raised |-> "none", at |-> 0, items |-> <<>>]
NoRun == [loaded |-> FALSE, rendered |-> FALSE, slept |-> FALSE]
\* st.cache_data holds no entry of load_data
NoCache == [valid |-> FALSE, value |-> NoFrame]

----------------------------------------------------------------------------
(* The pipeline, called function by function *)

InitCore ==
    /\ pc = "input"
    /\ price_df \in PriceTables
    /\ esg_df \in EsgTables
    /\ df = NoFrame
    /\ holdings_dict = None
    /\ metrics = NoMetrics
    /\ insights = NoInsights
    /\ score = <<>> /\ rating = <<>>
    /\ auto_refresh = FALSE /\ custom_holdings = None
    /\ cache = NoCache /\ banners = <<>> /\ run = NoRun

\* merged = merge_price_and_esg(price_df, esg_df)
Merge ==
    /\ pc = "input"
    /\ price_df' = CoercePrices(price_df)
    /\ df' = MergedFrame(CoercePrices(price_df), esg_df)
    /\ pc' = "merged"
    /\ UNCHANGED <<esg_df, holdings_dict, metrics, insights>>
    /\ UNCHANGED rateVars /\ UNCHANGED appVars

\* valued, metrics = calculate_portfolio_metrics(merged, h); valued is merged
Portfolio ==
    /\ pc = "merged"
    /\ \E h \in HoldingsArgs :
          /\ holdings_dict' = h
          /\ df' = ValuedFrame(df, h)
          /\ metrics' = MetricsOf(ValuedFrame(df, h))
    /\ pc' = "valued"
    /\ UNCHANGED <<price_df, esg_df, insights>>
    /\ UNCHANGED rateVars /\ UNCHANGED appVars

\* get_esg_insights(valued)
Insights ==
    /\ pc = "valued"
    /\ insights' = get_esg_insights(df)
    /\ pc' = "done"
    /\ UNCHANGED <<price_df, esg_df, df, holdings_dict, metrics>>
    /\ UNCHANGED rateVars /\ UNCHANGED appVars

NextCore == Merge \/ Portfolio \/ Insights

SpecCore == InitCore /\ [][NextCore]_vars

----------------------------------------------------------------------------
(* categorize_esg_score, called on its own *)

\* every mean of three integer components in 0..MaxScore
Scores == {Div(n, 3) : n \in 0..(3 * MaxScore)}

\* score holds the arguments of two calls, rating the results so far
InitRating ==
    /\ pc = "score"
    /\ score \in Scores \X Scores
    /\ rating = <<>>
    /\ price_df = NoFrame /\ esg_df = NoFrame /\ df = NoFrame
    /\ holdings_dict = None /\ metrics = NoMetrics /\ insights = NoInsights
    /\ auto_refresh = FALSE /\ custom_holdings = None
    /\ cache = NoCache /\ banners = <<>> /\ run = NoRun

\* the next call: categorize_esg_score(score[k])
Categorize ==
    /\ pc = "score"
    /\ rating' = Append(rating, categorize_esg_score(score[Len(rating) + 1]))
    /\ pc' = IF Len(rating) + 1 = Len(score) THEN "rated" ELSE "score"
    /\ UNCHANGED score /\ UNCHANGED coreVars /\ UNCHANGED appVars

NextRating == Categorize

SpecRating == InitRating /\ [][NextRating]_vars

----------------------------------------------------------------------------
(* app.py: one script run after another *)

\* the price tables the exchange answers with: any set of markets, quoted
AppPriceTables ==
    {PriceTable(pick) : pick \in [Symbols -> {"absent", "quote"}]}

\* data/sample_esg_scores.csv: the reference rows of the two main markets
SampleEsg ==
    EsgTable([m \in Symbols |->
                 CASE m = "BTCUSDT" -> <<40, 40, 40>>
                   [] m = "ETHUSDT" -> <<70, 70, 70>>
                   [] m = "XRPUSDT" -> <<>>])

\* lines 46-62: None, or the five inputs of the sidebar
SidebarHoldings ==
    {None} \cup
    {Dict([m \in DOMAIN DefaultHoldings |->
              CASE m = "BTCUSDT" -> b [] m = "ETHUSDT" -> e
                [] OTHER -> DefaultHoldings[m]]) :
        b \in Quantities, e \in Quantities}

ErrorLoading == "Error loading data"
UnableMsg    == "Unable to load cryptocurrency data. Please check your internet connection and try again."
InstallMsg   == "Make sure you have installed all required packages"

Init ==
    /\ pc = "sidebar"
    /\ price_df = NoFrame /\ esg_df = NoFrame /\ df = NoFrame
    /\ holdings_dict = None /\ metrics = NoMetrics /\ insights = NoInsights
    /\ score = <<>> /\ rating = <<>>
    /\ auto_refresh = FALSE /\ custom_holdings = None
    /\ cache = NoCache /\ banners = <<>> /\ run = NoRun

\* lines 44-65: the widgets are read
Sidebar ==
    /\ pc = "sidebar"
    /\ custom_holdings' \in SidebarHoldings
    /\ auto_refresh' \in BOOLEAN
    /\ pc' = "toggle"
    /\ UNCHANGED <<cache, banners, run>>
    /\ UNCHANGED coreVars /\ UNCHANGED rateVars

\* lines 66-67: st.rerun() ends the run on the spot
EarlyRerun ==
    /\ pc = "toggle"
    /\ pc' = IF auto_refresh THEN "rerun" ELSE "load"
    /\ UNCHANGED coreVars /\ UNCHANGED rateVars /\ UNCHANGED appVars

\* lines 83-85, and their replay from the cache: what load_data shows
LoadBanners(result) == IF result.none THEN <<ErrorLoading>> ELSE <<>>

\* lines 70-89: df = load_data()
LoadData ==
    /\ pc = "load"
    /\ \/ \* st.cache_data serves a copy of the entry, not older than the ttl
          /\ cache.valid
          /\ df' = cache.value
          /\ UNCHANGED <<price_df, esg_df, cache>>
       \/ \* fetch_live_prices or read_csv raises: caught, None returned
          /\ df' = NoFrame
          /\ cache' = [valid |-> TRUE, value |-> NoFrame]
          /\ UNCHANGED <<price_df, esg_df>>
       \/ \* both tables load and are merged
          \E p \in AppPriceTables :
             /\ price_df' = CoercePrices(p)
             /\ esg_df' = SampleEsg
             /\ df' = MergedFrame(CoercePrices(p), SampleEsg)
             /\ cache' = [valid |-> TRUE,
                          value |-> MergedFrame(CoercePrices(p), SampleEsg)]
    /\ banners' = banners \o LoadBanners(df')
    /\ run' = [run EXCEPT !.loaded = TRUE]
    /\ pc' = "branch"
    /\ UNCHANGED <<holdings_dict, metrics, insights, auto_refresh, custom_holdings>>
    /\ UNCHANGED rateVars

\* line 91
Loaded(frame) == ~frame.none /\ frame.rows # <<>>

\* lines 91-96
AppPortfolio ==
    /\ pc = "branch"
    /\ Loaded(df)
    /\ holdings_dict' = custom_holdings
    /\ df' = ValuedFrame(df, custom_holdings)
    /\ metrics' = MetricsOf(ValuedFrame(df, custom_holdings))
    /\ pc' = "render"
    /\ UNCHANGED <<price_df, esg_df, insights>>
    /\ UNCHANGED rateVars /\ UNCHANGED appVars

\* lines 339-341
UnableToLoad ==
    /\ pc = "branch"
    /\ ~Loaded(df)
    /\ banners' = banners \o <<UnableMsg, InstallMsg>>
    /\ pc' = "done"
    /\ UNCHANGED <<auto_refresh, custom_holdings, cache, run>>
    /\ UNCHANGED coreVars /\ UNCHANGED rateVars

\* lines 98-331: the dashboard, with the insights of line 247
Render ==
    /\ pc = "render"
    /\ insights' = get_esg_insights(df)
    /\ run' = [run EXCEPT !.rendered = (get_esg_insights(df).raised = "none")]
    /\ pc' = IF get_esg_insights(df).raised = "none" THEN "footer" ELSE "crashed"
    /\ UNCHANGED <<price_df, esg_df, df, holdings_dict, metrics>>
    /\ UNCHANGED <<auto_refresh, custom_holdings, cache, banners>>
    /\ UNCHANGED rateVars

\* lines 333-337: time.sleep(30), then st.rerun()
Footer ==
    /\ pc = "footer"
    /\ run' = [run EXCEPT !.slept = auto_refresh]
    /\ pc' = IF auto_refresh THEN "rerun" ELSE "done"
    /\ UNCHANGED <<auto_refresh, custom_holdings, cache, banners>>
    /\ UNCHANGED coreVars /\ UNCHANGED rateVars

\* the next run of the script: after st.rerun(), after a crash, or on the
\* next interaction; the cache entry may have outlived its ttl by then
NewRun ==
    /\ pc \in {"rerun", "done", "crashed"}
    /\ pc' = "sidebar"
    /\ price_df' = NoFrame /\ esg_df' = NoFrame /\ df' = NoFrame
    /\ holdings_dict' = None /\ metrics' = NoMetrics /\ insights' = NoInsights
    /\ banners' = <<>> /\ run' = NoRun
    /\ cache' \in {cache, NoCache}
    /\ UNCHANGED <<auto_refresh, custom_holdings>>
    /\ UNCHANGED rateVars

Next ==
    \/ Sidebar \/ EarlyRerun \/ LoadData \/ AppPortfolio \/ UnableToLoad
    \/ Render \/ Footer \/ NewRun

Spec == Init /\ [][Next]_vars

----------------------------------------------------------------------------
(* Properties *)

MarketsOf(frame) == {frame.rows[i]["market"] : i \in 1..Len(frame.rows)}
RowsOf(frame)    == {frame.rows[i] : i \in 1..Len(frame.rows)}

MergeDone     == pc \in {"merged", "valued", "done"}
PortfolioDone == pc \in {"valued", "done"}
MergeStep     == pc = "input" /\ pc' = "merged"
PortfolioStep == pc = "merged" /\ pc' = "valued"

\* C1: merge returns exactly one asset for each symbol that the price table
\* and the ESG table share, and none for any other symbol (so an empty table
\* on either side gives an empty result).
C1_JoinCorrectness ==
    MergeDone =>
        LET shared == MarketsOf(price_df) \cap MarketsOf(esg_df)
        IN  /\ MarketsOf(df) = shared
            /\ Len(df.rows) = Cardinality(shared)

\* C1 witness: a merge whose tables share a symbol and each hold one the
\* other lacks
C1_Witness ==
    /\ pc = "merged"
    /\ MarketsOf(price_df) \cap MarketsOf(esg_df) # {}
    /\ MarketsOf(price_df) \ MarketsOf(esg_df) # {}
    /\ MarketsOf(esg_df) \ MarketsOf(price_df) # {}
    /\ df.rows # <<>>

\* text that does not read as a number
NotANumber(cell) ==
    /\ cell.kind = "str"
    /\ \/ cell.s = <<>>
       \/ \E i \in 1..Len(cell.s) : cell.s[i] \notin Digits

ExampleScenario ==
    /\ PortfolioDone
    /\ price_df.rows = << [market |-> "BTCUSDT", last_price |-> Num(50000)],
                          [market |-> "ETHUSDT", last_price |-> Num(3000)],
                          [market |-> "XRPUSDT", last_price |-> Num(1)] >>
    /\ esg_df.rows = << [market |-> "BTCUSDT", name |-> "BTC",
                         esg_e |-> 40, esg_s |-> 40, esg_g |-> 40],
                        [market |-> "ETHUSDT", name |-> "ETH",
                         esg_e |-> 70, esg_s |-> 70, esg_g |-> 70] >>
    /\ ~holdings_dict.none
    /\ holdings_dict.map = [m \in {"BTCUSDT", "ETHUSDT"} |-> HoldingUnit]

\* a fraction in hundredths, rounded to nearest
Hundredths(f) ==
    100 * (f.num \div f.den) + (2 * 100 * (f.num % f.den) + f.den) \div (2 * f.den)

\* the parts of the example both readings agree on: two merged rows, scores
\* 40 and 70, ETH rated "A (Very Good)", total_value 53000, and
\* weighted_esg = (40*50000 + 70*3000)/53000 = 41 + 37/53
ExampleCommon ==
    /\ Len(df.rows) = 2
    /\ df.rows[1]["market"] = "BTCUSDT" /\ df.rows[2]["market"] = "ETHUSDT"
    /\ df.rows[1]["ESG Score"].num = 40 * df.rows[1]["ESG Score"].den
    /\ df.rows[2]["ESG Score"].num = 70 * df.rows[2]["ESG Score"].den
    /\ df.rows[2]["ESG Rating"] = "A (Very Good)"
    /\ metrics.total_value = 53000 * HoldingUnit
    /\ ~metrics.weighted_esg.nan
    /\ metrics.weighted_esg.num \div metrics.weighted_esg.den = 41
    /\ 53 * (metrics.weighted_esg.num % metrics.weighted_esg.den)
          = 37 * metrics.weighted_esg.den

\* C3 as stated: in the example BTC (score 40) is rated "C (Poor)" and
\* weighted_esg is about 41.13.
C3_ExampleAsStated ==
    ExampleScenario =>
        /\ ExampleCommon
        /\ df.rows[1]["ESG Rating"] = "C (Poor)"
        /\ Hundredths(metrics.weighted_esg) = 4113

\* C3 amended: in the example the pipeline yields 2 merged rows, esg_score
\* 40 for BTC rated "C+ (Below Average)", 70 for ETH rated "A (Very Good)",
\* total_value 53000 and weighted_esg = (40*50000 + 70*3000)/53000, which is
\* about 41.70.
C3_Example ==
    ExampleScenario =>
        /\ ExampleCommon
        /\ df.rows[1]["ESG Rating"] = "C+ (Below Average)"
        /\ Hundredths(metrics.weighted_esg) = 4170

\* C3 witness: the example has been run through merge and the calculator
C3_Witness == ExampleScenario /\ pc = "valued" /\ metrics.num_holdings = 2

\* the rating table of the documentation, as intervals of the score
TableLabel(sc) ==
    CASE 80 * sc.den <= sc.num                            -> "A+ (Excellent)"
      [] 70 * sc.den <= sc.num /\ sc.num < 80 * sc.den    -> "A (Very Good)"
      [] 60 * sc.den <= sc.num /\ sc.num < 70 * sc.den    -> "B+ (Good)"
      [] 50 * sc.den <= sc.num /\ sc.num < 60 * sc.den    -> "B (Fair)"
      [] 40 * sc.den <= sc.num /\ sc.num < 50 * sc.den    -> "C+ (Below Average)"
      [] sc.num < 40 * sc.den                             -> "C (Poor)"

RankOf(label) ==
    CASE label = "A+ (Excellent)"     -> 5
      [] label = "A (Very Good)"      -> 4
      [] label = "B+ (Good)"          -> 3
      [] label = "B (Fair)"           -> 2
      [] label = "C+ (Below Average)" -> 1
      [] label = "C (Poor)"           -> 0

\* C4: every score in [0,100] gets the label of the threshold table with
\* inclusive lower bounds (a score on a threshold gets the higher label),
\* and of two scores the higher never gets the lower-ranked label.
C4_RatingTable ==
    pc = "rated" =>
        /\ \A k \in 1..Len(score) : rating[k] = TableLabel(score[k])
        /\ FracLeq(score[1], score[2]) => RankOf(rating[1]) <= RankOf(rating[2])

\* C4 witness: a score exactly on the threshold 80 and a lower one just
\* under it have both been rated
C4_Witness ==
    /\ pc = "rated"
    /\ score[2].num = 80 * score[2].den /\ rating[2] = "A+ (Excellent)"
    /\ score[1].num = 80 * score[1].den - 1 /\ rating[1] = "A (Very Good)"

\* C5: whenever every asset's value_usd is 0 (total_value is then 0; this
\* covers holdings that match no merged asset), the four weighted scores
\* are the plain 0 of the guard, not the result of a division.
C5_ZeroDivisionGuard ==
    (PortfolioDone /\ \A r \in RowsOf(df) : r["Value (USD)"] = Num(0)) =>
        /\ metrics.total_value = 0
        /\ metrics.weighted_esg = Zero
        /\ metrics.weighted_environmental = Zero
        /\ metrics.weighted_social = Zero
        /\ metrics.weighted_governance = Zero

\* C5 witness: assets that are held but are all worth 0
C5_Witness ==
    /\ pc = "valued"
    /\ df.rows # <<>>
    /\ \A r \in RowsOf(df) : r["Value (USD)"] = Num(0)
    /\ \E r \in RowsOf(df) : r["Holding"] > 0
    /\ metrics.weighted_esg = Zero

HeldRows == {r \in RowsOf(df) : r["Holding"] > 0}

\* weighted_esg lies between the least and the greatest esg_score of the
\* assets held
WithinHeldScores ==
    /\ \E r \in HeldRows : FracLeq(r["ESG Score"], metrics.weighted_esg)
    /\ \E r \in HeldRows : FracLeq(metrics.weighted_esg, r["ESG Score"])

\* C6 as stated: whenever some asset has holding > 0, weighted_esg lies
\* between the minimum and the maximum esg_score of the assets held, also
\* when the assets held all have last_price 0.
C6_WeightedBoundAsStated ==
    (PortfolioDone /\ HeldRows # {}) => WithinHeldScores

\* C6 amended: whenever some asset has holding > 0 and total_value > 0,
\* weighted_esg lies between the minimum and the maximum esg_score of the
\* assets held; when the assets held are all worth nothing (price 0 or
\* missing) total_value is 0 and weighted_esg is the guard's 0.
C6_WeightedBound ==
    (PortfolioDone /\ HeldRows # {}) =>
        IF metrics.total_value > 0 THEN WithinHeldScores
                                   ELSE metrics.weighted_esg = Zero

\* C6 witness: two held assets of different scores, and a weighted score
\* strictly between them
C6_Witness ==
    /\ pc = "valued"
    /\ metrics.total_value > 0
    /\ \E r \in HeldRows : ~FracLeq(metrics.weighted_esg, r["ESG Score"])
    /\ \E r \in HeldRows : ~FracLeq(r["ESG Score"], metrics.weighted_esg)
    /\ \E r \in RowsOf(df) : r["Holding"] = 0

\* after is before, but for its last_price column, which holds numbers or NaN
SameButPrice(before, after) ==
    /\ after.columns = before.columns
    /\ Len(after.rows) = Len(before.rows)
    /\ \A i \in 1..Len(before.rows) :
          /\ \A c \in before.columns \ {"last_price"} :
                after.rows[i][c] = before.rows[i][c]
          /\ after.rows[i]["last_price"].kind \in {"num", "nan"}
          /\ before.rows[i]["last_price"].kind # "str" =>
                after.rows[i]["last_price"] = before.rows[i]["last_price"]

\* after is before with the columns Holding and Value (USD) added
Extended(before, after) ==
    /\ after.columns = before.columns \cup {"Holding", "Value (USD)"}
    /\ Len(after.rows) = Len(before.rows)
    /\ \A i \in 1..Len(before.rows) :
          \A c \in before.columns : after.rows[i][c] = before.rows[i][c]

C8_EmptyResultDistinct ==
    (pc = "done" /\ ~df.none /\ df.rows = <<>>) =>
        \A k \in 1..Len(banners) : banners[k] # UnableMsg

\* C9 as stated: on an empty table generateInsights fails with an
\* EmptyInputError raised by a guard, before any maximum is looked up.
C9_EmptyInputGuard ==
    (pc = "done" /\ df.rows = <<>>) =>
        /\ insights.raised = "EmptyInputError"
        /\ insights.at < 85

\* C10 as stated: with auto-refresh on, a run reaches the data load and the
\* rendering, then sleeps, before it triggers the next rerun.
C10_RerunAfterRender ==
    pc = "rerun" => (run.loaded /\ run.rendered /\ run.slept)

====
